---- MODULE Spec2Model ----
(***************************************************************************)
(* Model of example/tensorflow/synthetic_benchmark_tf2.py: the synthetic   *)
(* benchmark each worker of a BytePS group runs.  One process per worker   *)
(* (rank 0..size-1); workers meet only in the collectives of a training    *)
(* step (gradient all-reduce, variable broadcast).                          *)
(***************************************************************************)
EXTENDS Integers, Sequences, FiniteSets, TLC

(* ------------------------------ bounds ------------------------------- *)
MaxSize == 3
MaxGpus == 2
MaxBatchSize == 2
MaxWarmup == 1
MaxBatchesPerIter == 2
MaxIters == 2
MaxStepTime == 2

(* ---------------------- text (model names) --------------------------- *)
(* A name is the sequence of its characters. *)
Upper == <<"A","B","C","D","E","F","G","H","I","J","K","L","M",
           "N","O","P","Q","R","S","T","U","V","W","X","Y","Z">>
Lowers == <<"a","b","c","d","e","f","g","h","i","j","k","l","m",
            "n","o","p","q","r","s","t","u","v","w","x","y","z">>

LowerChar(c) ==
    IF \E i \in 1..Len(Upper) : Upper[i] = c
    THEN Lowers[CHOOSE i \in 1..Len(Upper) : Upper[i] = c]
    ELSE c

Lower(s) == [i \in 1..Len(s) |-> LowerChar(s[i])]

vgg19 == <<"v","g","g","1","9">>
resnet50 == <<"r","e","s","n","e","t","5","0">>
VGG19 == <<"V","G","G","1","9">>
ResNet50 == <<"R","e","s","N","e","t","5","0">>
MobileNet == <<"M","o","b","i","l","e","N","e","t">>

(* a prefix test that disregards the letter case *)
StartsWithAnyCase(s, prefix) ==
    /\ Len(prefix) <= Len(s)
    /\ \A i \in 1..Len(prefix) : LowerChar(s[i]) = LowerChar(prefix[i])

(* str.startswith: character by character, letter case included *)
StartsWith(s, prefix) ==
    /\ Len(prefix) <= Len(s)
    /\ \A i \in 1..Len(prefix) : s[i] = prefix[i]

(* the attributes of tensorflow.keras.applications the model knows *)
Applications == {VGG19, ResNet50, MobileNet}

(* the --model values of the runs *)
ModelNames ==
    { vgg19, vgg19 \o <<"_","b","n">>, VGG19, resnet50, ResNet50,
      <<"R","E","S","N","E","T","5","0">>, MobileNet, <<"n","o","n","e">> }

(* -------------------------- rational numbers ------------------------- *)
(* A float is modelled by the exact rational <<n, d>>, d > 0, in lowest   *)
(* terms; <<0, 0>> is nan.                                                *)
NaN == <<0, 0>>

IsNaN(r) == r[2] = 0

Abs(n) == IF n < 0 THEN -n ELSE n

RECURSIVE GCD(_, _)
GCD(a, b) == IF b = 0 THEN a ELSE GCD(b, a % b)

LCM(a, b) == (a \div GCD(a, b)) * b

Rat(n, d) ==
    LET g == GCD(Abs(n), d)
    IN  <<n \div g, d \div g>>

RAdd(a, b) ==
    IF IsNaN(a) \/ IsNaN(b) THEN NaN
    ELSE LET l == LCM(a[2], b[2])
         IN  Rat(a[1] * (l \div a[2]) + b[1] * (l \div b[2]), l)

RSub(a, b) == RAdd(a, <<-b[1], b[2]>>)

RMul(a, b) ==
    IF IsNaN(a) \/ IsNaN(b) THEN NaN
    ELSE LET g1 == GCD(Abs(a[1]), b[2])
             g2 == GCD(Abs(b[1]), a[2])
         IN  <<(a[1] \div g1) * (b[1] \div g2), (a[2] \div g2) * (b[2] \div g1)>>

RDivInt(a, n) == IF n = 0 \/ IsNaN(a) THEN NaN ELSE RMul(a, <<1, n>>)

RECURSIVE RSum(_)
RSum(s) == IF s = <<>> THEN <<0, 1>> ELSE RAdd(s[1], RSum(Tail(s)))

(* ------------------------------ statistics --------------------------- *)
(* numpy.mean: the sum over the length (nan for no sample) *)
Mean(s) == IF s = <<>> THEN NaN ELSE RDivInt(RSum(s), Len(s))

SquaredDeviations(s, m) == [i \in 1..Len(s) |-> RMul(RSub(s[i], m), RSub(s[i], m))]

(* numpy.std with ddof = 1: the sample deviation *)
StdSample(s) ==
    [c |-> <<1, 1>>,
     rad |-> IF s = <<>> THEN NaN
             ELSE RDivInt(RSum(SquaredDeviations(s, Mean(s))), Len(s) - 1)]

(* numpy.std, ddof = 0: the root of the mean squared deviation.  A root   *)
(* is kept exact, as c * sqrt(rad).                                       *)
Std(s) == [c |-> <<1, 1>>, rad |-> Mean(SquaredDeviations(s, Mean(s)))]

SMul(k, v) == [c |-> RMul(k, v.c), rad |-> v.rad]

(* 1.96 *)
ConfFactor == Rat(196, 100)

(* line 136: 1.96 * np.std(img_secs) *)
Conf(s) == SMul(ConfFactor, Std(s))

(* the throughput of one batch, the batches of the iteration forgotten *)
ImgSecPerBatch(batch_size, num_batches_per_iter, time) == Rat(batch_size, time)

(* line 130: args.batch_size * args.num_batches_per_iter / time *)
ImgSec(batch_size, num_batches_per_iter, time) ==
    Rat(batch_size * num_batches_per_iter, time)

(* ------------------------------- state ------------------------------- *)
VARIABLES
    args,          \* the parsed command line (RunConfig), the same for every worker
    size,          \* bps.size(): the number of workers
    local_size,    \* workers per machine
    ngpus,         \* GPUs tf lists on a machine
    max_step,      \* a training step lasts 1..max_step clock ticks
    cost,          \* the group's latest training step and its duration
    pc,            \* where each worker is in the script
    cuda,          \* args.cuda
    visible,       \* the GPU index made visible (-1: never restricted)
    cuda_env,      \* os.environ["CUDA_VISIBLE_DEVICES"]
    model,         \* how the model was built
    device,        \* the string device
    err,           \* the exception that ended the worker
    output,        \* the lines printed on standard output
    first_batch,   \* the argument of the running benchmark_step
    phase,         \* "first", "warmup" or "bench": who called benchmark_step
    left,          \* calls timeit still has to make
    x,             \* the benchmark loop's iteration
    t0,            \* the timer's reading when timeit started
    now,           \* the worker's clock
    img_secs,
    img_sec_mean,
    img_sec_conf,
    calls,         \* the collectives the worker has issued, in order
    applied,       \* opt.apply_gradients calls made
    steps,         \* benchmark_step calls that returned
    iterTime       \* per iteration, the ticks its training steps took

vars == << args, size, local_size, ngpus, max_step, cost, pc, cuda, visible,
           cuda_env, model, device, err, output, first_batch, phase, left, x,
           t0, now, img_secs, img_sec_mean, img_sec_conf, calls, applied,
           steps, iterTime >>

Workers == 0..(size - 1)

(* bps.rank() *)
rank(w) == w

(* bps.local_rank() *)
local_rank(w) == w % local_size

(* lines 34-35: args.cuda = not args.no_cuda *)
ArgsCuda(no_cuda) == ~no_cuda

NoModel == [via |-> "none", ctor |-> <<>>]
NoConf == [c |-> NaN, rad |-> NaN]

(* The state after parse_args() and bps.init(), lines 34-37 *)
InitWith(sizes, machines, gpus, nocudas, models, batches, warmups, bpis, iterss, steptimes) ==
    /\ size \in sizes
    /\ local_size \in {l \in 1..size : size % l = 0 /\ (size \div l) \in machines}
    /\ ngpus \in gpus
    /\ max_step \in steptimes
    /\ args \in [ model : models, batch_size : batches,
                  num_warmup_batches : warmups, num_batches_per_iter : bpis,
                  num_iters : iterss, no_cuda : nocudas ]
    /\ cost = [step |-> 0, d |-> 0]
    /\ pc = [w \in Workers |-> "pin"]
    /\ cuda = [w \in Workers |-> ArgsCuda(args.no_cuda)]
    /\ visible = [w \in Workers |-> -1]
    /\ cuda_env = [w \in Workers |-> "unset"]
    /\ model = [w \in Workers |-> NoModel]
    /\ device = [w \in Workers |-> ""]
    /\ err = [w \in Workers |-> "none"]
    /\ output = [w \in Workers |-> <<>>]
    /\ first_batch = [w \in Workers |-> FALSE]
    /\ phase = [w \in Workers |-> "init"]
    /\ left = [w \in Workers |-> 0]
    /\ x = [w \in Workers |-> 0]
    /\ t0 = [w \in Workers |-> 0]
    /\ now = [w \in Workers |-> 0]
    /\ img_secs = [w \in Workers |-> <<>>]
    /\ img_sec_mean = [w \in Workers |-> NaN]
    /\ img_sec_conf = [w \in Workers |-> NoConf]
    /\ calls = [w \in Workers |-> <<>>]
    /\ applied = [w \in Workers |-> 0]
    /\ steps = [w \in Workers |-> 0]
    /\ iterTime = [w \in Workers |-> <<>>]

(* -------------------------- pure parts of the script ------------------ *)
(* line 45: gpus[bps.local_rank()], a list index; -2 stands for IndexError *)
IndexError == -2
GpuIndex(n, i) == IF i < n THEN i ELSE IndexError

(* lines 40-47: what pinning leaves behind: the visible device, the        *)
(* environment variable, and whether it raised                             *)
Pin(is_cuda, n, lrank) ==
    IF is_cuda
    THEN IF n > 0
         THEN [visible |-> GpuIndex(n, lrank), env |-> "unset",
               raised |-> GpuIndex(n, lrank) = IndexError]
         ELSE [visible |-> -1, env |-> "unset", raised |-> FALSE]
    ELSE [visible |-> -1, env |-> "-1", raised |-> FALSE]

(* lines 64-70: the constructor a model name resolves to.  getattr raises  *)
(* AttributeError for a name tensorflow.keras.applications does not have.  *)
ResolveModel(name) ==
    IF StartsWith(name, vgg19)
    THEN [via |-> "import", ctor |-> VGG19, found |-> TRUE]
    ELSE IF StartsWith(name, resnet50)
         THEN [via |-> "import", ctor |-> ResNet50, found |-> TRUE]
         ELSE [via |-> "getattr", ctor |-> name, found |-> name \in Applications]

(* a loop that runs once too often *)
InRangeInclusive(i, n) == i <= n

(* line 127: for x in range(args.num_iters) goes on while x < num_iters *)
InRange(i, n) == i < n

(* the per-worker mean reported as the group's *)
TotalMeanUnscaled(n, mean) == mean

(* line 139: bps.size() * img_sec_mean, bps.size() * img_sec_conf *)
TotalMean(n, mean) == RMul(<<n, 1>>, mean)
TotalConf(n, conf) == SMul(<<n, 1>>, conf)

(* a device mode that also asks for a discovered GPU *)
DeviceProbed(is_cuda) == IF is_cuda /\ ngpus > 0 THEN "GPU" ELSE "CPU"

(* line 113 *)
Device(is_cuda) == IF is_cuda THEN "GPU" ELSE "CPU"

(* log without the rank test *)
LogAnyRank(w, out, line) == Append(out, line)

(* lines 105-108: log(s) prints on rank 0 only.  A line is its format and  *)
(* the values formatted into it.                                           *)
Log(w, out, line) == IF rank(w) # 0 THEN out ELSE Append(out, line)

Line(fmt, a) == [fmt |-> fmt, args |-> a]

(* a broadcast in every step *)
BroadcastsEveryStep(first) == <<"model.variables", "opt.variables">>

(* lines 100-102: the variables benchmark_step broadcasts after the update *)
Broadcasts(first) == IF first THEN <<"model.variables", "opt.variables">> ELSE <<>>

(* gradients aggregated by rank 0 only *)
AllreduceRootOnly(w) ==
    [op |-> IF rank(w) = 0 THEN "allreduce" ELSE "none", vars |-> "gradients",
     root |-> -1, step |-> steps[w] + 1, applied |-> applied[w]]

(* lines 90-91: DistributedGradientTape.gradient, the gradient all-reduce *)
Allreduce(w) == [op |-> "allreduce", vars |-> "gradients", root |-> -1,
                 step |-> steps[w] + 1, applied |-> applied[w]]

Broadcast(w, v, done) == [op |-> "broadcast", vars |-> v, root |-> 0,
                          step |-> steps[w] + 1, applied |-> done]

(* A collective completes for a worker once every worker of the group has  *)
(* issued the same call at the same place of its sequence.                 *)
Arrived(w) ==
    LET k == Len(calls[w])
    IN  \A v \in Workers : Len(calls[v]) >= k /\ calls[v][k].op = calls[w][k].op
                           /\ calls[v][k].vars = calls[w][k].vars

(* The k-th step of the group lasts the same for every worker: it ends     *)
(* with the all-reduce they complete together.  No worker ends step k + 1  *)
(* before every worker has ended step k, so the latest step is enough.     *)
StepTimes(k) == IF cost.step = k THEN {cost.d} ELSE 1..max_step

(* timeit's own ticks decide the reading only when the loop ran no step    *)
TimerTicks(number) == IF number = 0 THEN {0, 1} ELSE {0}

(* ------------------------------- actions ----------------------------- *)
(* lines 40-47 *)
PinGpu(w) ==
    /\ pc[w] = "pin"
    /\ LET p == Pin(cuda[w], ngpus, local_rank(w))
       IN  IF p.raised
           THEN /\ err' = [err EXCEPT ![w] = "IndexError"]
                /\ pc' = [pc EXCEPT ![w] = "failed"]
                /\ UNCHANGED << visible, cuda_env >>
           ELSE /\ visible' = [visible EXCEPT ![w] = p.visible]
                /\ cuda_env' = [cuda_env EXCEPT ![w] = p.env]
                /\ pc' = [pc EXCEPT ![w] = "model"]
                /\ UNCHANGED err
    /\ UNCHANGED << args, size, local_size, ngpus, max_step, cost, cuda,
                    model, device, output, first_batch, phase,
                    left, x, t0, now, img_secs, img_sec_mean, img_sec_conf,
                    calls, applied, steps, iterTime >>

(* lines 64-70 *)
BuildModel(w) ==
    /\ pc[w] = "model"
    /\ LET m == ResolveModel(args.model)
       IN  IF m.found
           THEN /\ model' = [model EXCEPT ![w] = [via |-> m.via, ctor |-> m.ctor]]
                /\ pc' = [pc EXCEPT ![w] = "header"]
                /\ UNCHANGED err
           ELSE /\ err' = [err EXCEPT ![w] = "AttributeError"]
                /\ pc' = [pc EXCEPT ![w] = "failed"]
                /\ UNCHANGED model
    /\ UNCHANGED << args, size, local_size, ngpus, max_step, cost, cuda, visible,
                    cuda_env, device, output, first_batch, phase,
                    left, x, t0, now, img_secs, img_sec_mean, img_sec_conf,
                    calls, applied, steps, iterTime >>

(* lines 111-114 *)
LogHeader(w) ==
    /\ pc[w] = "header"
    /\ device' = [device EXCEPT ![w] = Device(cuda[w])]
    /\ output' = [output EXCEPT ![w] =
          Log(w, Log(w, Log(w, @,
              Line("Model: %s", <<args.model>>)),
              Line("Batch size: %d", <<args.batch_size>>)),
              Line("Number of %ss: %d", <<device'[w], size>>))]
    /\ pc' = [pc EXCEPT ![w] = "warmup"]
    /\ UNCHANGED << args, size, local_size, ngpus, max_step, cost, cuda, visible,
                    cuda_env, model, err, first_batch, phase,
                    left, x, t0, now, img_secs, img_sec_mean, img_sec_conf,
                    calls, applied, steps, iterTime >>

(* lines 119-120, 86-91: log the warm-up notice and enter                  *)
(* benchmark_step(first_batch=True), up to the gradient all-reduce         *)
WarmupStart(w) ==
    /\ pc[w] = "warmup"
    /\ output' = [output EXCEPT ![w] = Log(w, @, Line("Running warmup...", <<>>))]
    /\ first_batch' = [first_batch EXCEPT ![w] = TRUE]
    /\ phase' = [phase EXCEPT ![w] = "first"]
    /\ calls' = [calls EXCEPT ![w] = Append(@, Allreduce(w))]
    /\ pc' = [pc EXCEPT ![w] = "allreduce"]
    /\ UNCHANGED << args, size, local_size, ngpus, max_step, cost, cuda, visible,
                    cuda_env, model, device, err,
                    left, x, t0, now, img_secs, img_sec_mean, img_sec_conf,
                    applied, steps, iterTime >>

(* benchmark_step returns to its caller: the step took d ticks *)
Return(w, d) ==
    /\ steps' = [steps EXCEPT ![w] = @ + 1]
    /\ now' = [now EXCEPT ![w] = @ + d]
    /\ cost' = [step |-> steps[w] + 1, d |-> d]
    /\ iterTime' = IF phase[w] = "bench"
                   THEN [iterTime EXCEPT ![w][Len(iterTime[w])] = @ + d]
                   ELSE iterTime
    /\ pc' = [pc EXCEPT ![w] = IF phase[w] = "first" THEN "warm_timeit" ELSE "timing"]

(* lines 91-102: the all-reduce completes, the optimizer applies the       *)
(* gradients, and the first step goes on to broadcast the model variables  *)
AllreduceDone(w) ==
    /\ pc[w] = "allreduce"
    /\ Arrived(w)
    /\ applied' = [applied EXCEPT ![w] = @ + 1]
    /\ LET b == Broadcasts(first_batch[w])
       IN  IF b # <<>>
           THEN /\ calls' = [calls EXCEPT ![w] = Append(@, Broadcast(w, b[1], applied'[w]))]
                /\ pc' = [pc EXCEPT ![w] = "broadcast"]
                /\ UNCHANGED << steps, now, cost, iterTime >>
           ELSE /\ \E d \in StepTimes(steps[w] + 1) : Return(w, d)
                /\ UNCHANGED calls
    /\ UNCHANGED << args, size, local_size, ngpus, max_step, cuda, visible,
                    cuda_env, model, device, err, output, first_batch, phase,
                    left, x, t0, img_secs, img_sec_mean, img_sec_conf >>

(* lines 101-102: a broadcast completes; the next one is issued, or the    *)
(* step returns                                                            *)
BroadcastDone(w) ==
    /\ pc[w] = "broadcast"
    /\ Arrived(w)
    /\ LET b == Broadcasts(first_batch[w])
           n == Cardinality({i \in 1..Len(calls[w]) :
                                /\ calls[w][i].op = "broadcast"
                                /\ calls[w][i].step = steps[w] + 1})
       IN  IF n < Len(b)
           THEN /\ calls' = [calls EXCEPT ![w] = Append(@, Broadcast(w, b[n + 1], applied[w]))]
                /\ UNCHANGED << pc, steps, now, cost, iterTime >>
           ELSE /\ \E d \in StepTimes(steps[w] + 1) : Return(w, d)
                /\ UNCHANGED calls
    /\ UNCHANGED << args, size, local_size, ngpus, max_step, cuda, visible,
                    cuda_env, model, device, err, output, first_batch, phase,
                    left, x, t0, img_secs, img_sec_mean, img_sec_conf, applied >>

(* lines 121-122: timeit.timeit(..., number=args.num_warmup_batches) starts *)
WarmupTimeit(w) ==
    /\ pc[w] = "warm_timeit"
    /\ t0' = [t0 EXCEPT ![w] = now[w]]
    /\ left' = [left EXCEPT ![w] = args.num_warmup_batches]
    /\ phase' = [phase EXCEPT ![w] = "warmup"]
    /\ pc' = [pc EXCEPT ![w] = "timing"]
    /\ UNCHANGED << args, size, local_size, ngpus, max_step, cost, cuda, visible,
                    cuda_env, model, device, err, output, first_batch,
                    x, now, img_secs, img_sec_mean, img_sec_conf,
                    calls, applied, steps, iterTime >>

(* timeit's loop calls benchmark_step(first_batch=False), up to the        *)
(* gradient all-reduce                                                     *)
TimeitCall(w) ==
    /\ pc[w] = "timing"
    /\ left[w] > 0
    /\ left' = [left EXCEPT ![w] = @ - 1]
    /\ first_batch' = [first_batch EXCEPT ![w] = FALSE]
    /\ calls' = [calls EXCEPT ![w] = Append(@, Allreduce(w))]
    /\ pc' = [pc EXCEPT ![w] = "allreduce"]
    /\ UNCHANGED << args, size, local_size, ngpus, max_step, cost, cuda, visible,
                    cuda_env, model, device, err, output, phase,
                    x, t0, now, img_secs, img_sec_mean, img_sec_conf,
                    applied, steps, iterTime >>

(* lines 122-126: the warm-up timeit returns (its time is dropped) *)
WarmupEnd(w) ==
    /\ pc[w] = "timing"
    /\ left[w] = 0
    /\ phase[w] = "warmup"
    /\ output' = [output EXCEPT ![w] = Log(w, @, Line("Running benchmark...", <<>>))]
    /\ img_secs' = [img_secs EXCEPT ![w] = <<>>]
    /\ x' = [x EXCEPT ![w] = 0]
    /\ pc' = [pc EXCEPT ![w] = "bench"]
    /\ UNCHANGED << args, size, local_size, ngpus, max_step, cost, cuda, visible,
                    cuda_env, model, device, err, first_batch, phase,
                    left, t0, now, img_sec_mean, img_sec_conf,
                    calls, applied, steps, iterTime >>

(* lines 127-129: the next iteration starts its timeit *)
IterStart(w) ==
    /\ pc[w] = "bench"
    /\ InRange(x[w], args.num_iters)
    /\ t0' = [t0 EXCEPT ![w] = now[w]]
    /\ left' = [left EXCEPT ![w] = args.num_batches_per_iter]
    /\ phase' = [phase EXCEPT ![w] = "bench"]
    /\ iterTime' = [iterTime EXCEPT ![w] = Append(@, 0)]
    /\ pc' = [pc EXCEPT ![w] = "timing"]
    /\ UNCHANGED << args, size, local_size, ngpus, max_step, cost, cuda, visible,
                    cuda_env, model, device, err, output, first_batch,
                    x, now, img_secs, img_sec_mean, img_sec_conf,
                    calls, applied, steps >>

(* lines 128-132: timeit returns the elapsed time; the throughput is       *)
(* computed (ZeroDivisionError for no elapsed time), logged and appended   *)
IterEnd(w) ==
    /\ pc[w] = "timing"
    /\ left[w] = 0
    /\ phase[w] = "bench"
    /\ \E tick \in TimerTicks(args.num_batches_per_iter) :
          /\ now' = [now EXCEPT ![w] = @ + tick]
          /\ iterTime' = [iterTime EXCEPT ![w][Len(iterTime[w])] = @ + tick]
    /\ LET time == now'[w] - t0[w]
           img_sec == ImgSec(args.batch_size, args.num_batches_per_iter, time)
       IN  IF time = 0
           THEN /\ err' = [err EXCEPT ![w] = "ZeroDivisionError"]
                /\ pc' = [pc EXCEPT ![w] = "failed"]
                /\ UNCHANGED << output, img_secs, x >>
           ELSE /\ output' = [output EXCEPT ![w] =
                      Log(w, @, Line("Iter #%d: %.1f img/sec per %s",
                                     <<x[w], img_sec, device[w]>>))]
                /\ img_secs' = [img_secs EXCEPT ![w] = Append(@, img_sec)]
                /\ x' = [x EXCEPT ![w] = @ + 1]
                /\ pc' = [pc EXCEPT ![w] = "bench"]
                /\ UNCHANGED err
    /\ UNCHANGED << args, size, local_size, ngpus, max_step, cost, cuda, visible,
                    cuda_env, model, device, first_batch, phase,
                    left, t0, img_sec_mean, img_sec_conf,
                    calls, applied, steps >>

(* lines 134-139 *)
Results(w) ==
    /\ pc[w] = "bench"
    /\ ~InRange(x[w], args.num_iters)
    /\ img_sec_mean' = [img_sec_mean EXCEPT ![w] = Mean(img_secs[w])]
    /\ img_sec_conf' = [img_sec_conf EXCEPT ![w] = Conf(img_secs[w])]
    /\ output' = [output EXCEPT ![w] =
          Log(w, Log(w, @,
              Line("Img/sec per %s: %.1f +-%.1f",
                   <<device[w], img_sec_mean'[w], img_sec_conf'[w]>>)),
              Line("Total img/sec on %d %s(s): %.1f +-%.1f",
                   <<size, device[w], TotalMean(size, img_sec_mean'[w]),
                     TotalConf(size, img_sec_conf'[w])>>))]
    /\ pc' = [pc EXCEPT ![w] = "done"]
    /\ UNCHANGED << args, size, local_size, ngpus, max_step, cost, cuda, visible,
                    cuda_env, model, device, err, first_batch, phase,
                    left, x, t0, now, img_secs,
                    calls, applied, steps, iterTime >>

Next ==
    \/ \E w \in Workers : PinGpu(w)
    \/ \E w \in Workers : BuildModel(w)
    \/ \E w \in Workers : LogHeader(w)
    \/ \E w \in Workers : WarmupStart(w)
    \/ \E w \in Workers : AllreduceDone(w)
    \/ \E w \in Workers : BroadcastDone(w)
    \/ \E w \in Workers : WarmupTimeit(w)
    \/ \E w \in Workers : TimeitCall(w)
    \/ \E w \in Workers : WarmupEnd(w)
    \/ \E w \in Workers : IterStart(w)
    \/ \E w \in Workers : IterEnd(w)
    \/ \E w \in Workers : Results(w)

(* ---------------------------- specifications ------------------------- *)
DefaultBatchSize == 32

(* The group: every group size and every loop length, on CPU *)
Init ==
    InitWith(1..MaxSize, {1}, {0}, {TRUE}, {ResNet50}, {DefaultBatchSize},
             0..MaxWarmup, 0..MaxBatchesPerIter, 0..MaxIters, {1})

Spec == Init /\ [][Next]_vars

(* The measurement: one worker, every batch size, loop length and step    *)
(* duration                                                               *)
InitTiming ==
    InitWith({1}, {1}, {0}, {TRUE}, {ResNet50}, 1..MaxBatchSize,
             0..MaxWarmup, 0..MaxBatchesPerIter, 0..MaxIters, {MaxStepTime})

SpecTiming == InitTiming /\ [][Next]_vars

(* The report: every group size and every sequence of samples, one step   *)
(* per iteration                                                          *)
InitReport ==
    InitWith(1..MaxSize, {1}, {0}, {TRUE}, {ResNet50}, {1},
             {0}, {1}, 0..MaxIters, {MaxStepTime})

SpecReport == InitReport /\ [][Next]_vars

(* The set-up: every device configuration and model name, shortest loops *)
InitSetup ==
    InitWith(1..MaxSize, 1..MaxSize, 0..MaxGpus, BOOLEAN, ModelNames, {DefaultBatchSize},
             {0}, {1}, {1}, {1})

SpecSetup == InitSetup /\ [][Next]_vars

(* ------------------------------ the claims --------------------------- *)
TotalSteps == 1 + args.num_warmup_batches + args.num_iters * args.num_batches_per_iter

NoFailure == \A w \in Workers : err[w] = "none"

AllDone == \A w \in Workers : pc[w] = "done"

BroadcastsOf(w) == SelectSeq(calls[w], LAMBDA c : c.op = "broadcast")

AllreducesOf(w) == SelectSeq(calls[w], LAMBDA c : c.op = "allreduce")

(* C1: every worker broadcasts exactly once, the model variables and then *)
(* the optimizer variables, from root rank 0: inside the first training    *)
(* step, after that step's gradient application and before any later       *)
(* application; a step called with first_batch = False never broadcasts.   *)
C1_BroadcastOnce ==
    \A w \in Workers :
        LET b == BroadcastsOf(w)
        IN  /\ Len(b) <= 2
            /\ \A i \in 1..Len(b) : b[i].step = 1 /\ b[i].applied = 1 /\ b[i].root = 0
            /\ Len(b) >= 1 => b[1].vars = "model.variables"
            /\ Len(b) = 2 => b[2].vars = "opt.variables"
            /\ (steps[w] >= 1 \/ applied[w] >= 2) => Len(b) = 2
            /\ (pc[w] = "broadcast") => (first_batch[w] /\ steps[w] = 0 /\ applied[w] = 1)
            /\ (pc[w] = "allreduce" /\ applied[w] = 0) => b = <<>>

C1_Witness ==
    /\ size >= 2
    /\ args.num_warmup_batches >= 1
    /\ args.num_iters * args.num_batches_per_iter >= 2
    /\ AllDone
    /\ \A w \in Workers : Len(BroadcastsOf(w)) = 2 /\ applied[w] = TotalSteps

(* the k-th collective of the run, whatever the rank *)
ExpectedCall(k) ==
    IF k = 2 THEN <<"broadcast", "model.variables">>
    ELSE IF k = 3 THEN <<"broadcast", "opt.variables">>
    ELSE <<"allreduce", "gradients">>

InStep(w) == pc[w] \in {"allreduce", "broadcast"}

(* a worker that is running and not held at a collective *)
CanMove(w) == pc[w] \notin {"done", "failed"} /\ (InStep(w) => Arrived(w))

(* C2: every worker aggregates gradients exactly once per training step   *)
(* and issues the same sequence of collectives whatever its rank: one      *)
(* aggregation and the broadcast in the first step, then one aggregation   *)
(* in each of the num_warmup_batches + num_iters * num_batches_per_iter    *)
(* later steps; while no worker has failed, some worker can always move    *)
(* until all are done, so none waits at a collective for ever.             *)
C2_SameCollectives ==
    /\ \A w \in Workers :
          /\ \A k \in 1..Len(calls[w]) :
                <<calls[w][k].op, calls[w][k].vars>> = ExpectedCall(k)
          /\ Len(AllreducesOf(w)) = steps[w] + (IF InStep(w) THEN 1 ELSE 0)
          /\ \A k \in 1..Len(AllreducesOf(w)) : AllreducesOf(w)[k].step = k
          /\ Len(calls[w]) <= TotalSteps + 2
          /\ pc[w] = "done" => (Len(calls[w]) = TotalSteps + 2 /\ steps[w] = TotalSteps)
    /\ NoFailure => (AllDone \/ \E w \in Workers : CanMove(w))

C2_Witness ==
    /\ size = MaxSize
    /\ AllDone
    /\ TotalSteps >= 4
    /\ \A w \in Workers : Len(calls[w]) = TotalSteps + 2

(* C3: a worker whose rank is not 0 never writes a line, at any point of  *)
(* the run, and still executes every training step; the lines are rank 0's *)
C3_OnlyRankZeroLogs ==
    /\ \A w \in Workers : rank(w) # 0 => output[w] = <<>>
    /\ \A w \in Workers : pc[w] = "done" => steps[w] = TotalSteps
    /\ pc[0] = "done" => Len(output[0]) = 7 + args.num_iters
    /\ pc[0] = "warmup" => Len(output[0]) = 3
    /\ pc[0] \notin {"pin", "model", "header", "warmup", "failed"} => Len(output[0]) >= 4

C3_Witness ==
    /\ size >= 3
    /\ AllDone
    /\ TotalSteps >= 3
    /\ args.num_iters >= 1
    /\ output[0] # <<>>
    /\ output[1] = <<>> /\ output[2] = <<>>

IterLines(w) == SelectSeq(output[w], LAMBDA l : l.fmt = "Iter #%d: %.1f img/sec per %s")

(* C4: for positive batch_size, num_iters and num_batches_per_iter, rank 0 *)
(* has logged, when the run completes, exactly num_iters per-iteration     *)
(* lines, numbered 0..num_iters-1 in increasing order, one appended sample *)
(* per line, each logged only after the num_batches_per_iter steps of its  *)
(* iteration have finished.                                                *)
C4_IterationLines ==
    (args.batch_size > 0 /\ args.num_iters > 0 /\ args.num_batches_per_iter > 0) =>
        LET l == IterLines(0)
        IN  /\ Len(l) = Len(img_secs[0])
            /\ Len(l) <= args.num_iters
            /\ \A i \in 1..Len(l) : l[i].args[1] = i - 1 /\ l[i].args[2] = img_secs[0][i]
            /\ Len(l) >= 1 =>
                  /\ steps[0] >= 1 + args.num_warmup_batches
                                  + Len(l) * args.num_batches_per_iter
                  /\ steps[0] <= 1 + args.num_warmup_batches
                                  + (Len(l) + 1) * args.num_batches_per_iter
            /\ pc[0] = "done" => Len(l) = args.num_iters

C4_Witness ==
    /\ pc[0] = "done"
    /\ args.num_iters = MaxIters
    /\ args.num_batches_per_iter = MaxBatchesPerIter
    /\ args.num_warmup_batches >= 1
    /\ Len(IterLines(0)) = MaxIters

(* C5: every sample appended to img_secs equals                            *)
(* batch_size * num_batches_per_iter / elapsed_time, where elapsed_time is *)
(* the time of the num_batches_per_iter consecutive steps of its iteration *)
(* only, and is positive; batch 32, 10 batches and 2 ticks give 160.       *)
C5_Throughput ==
    /\ ImgSec(32, 10, 2) = <<160, 1>>
    /\ \A w \in Workers :
          /\ Len(img_secs[w]) <= Len(iterTime[w])
          /\ \A i \in 1..Len(img_secs[w]) :
                LET v == img_secs[w][i]
                    t == iterTime[w][i]
                IN  /\ t > 0
                    /\ v[2] > 0
                    /\ v[1] * t = args.batch_size * args.num_batches_per_iter * v[2]
                    /\ args.num_batches_per_iter > 0 =>
                          /\ t >= args.num_batches_per_iter
                          /\ t <= args.num_batches_per_iter * max_step

C5_Witness ==
    /\ pc[0] = "done"
    /\ args.num_warmup_batches >= 1
    /\ args.num_batches_per_iter = 2
    /\ args.batch_size = 2
    /\ Len(img_secs[0]) = 2
    /\ img_secs[0][1] = <<4, 3>>
    /\ img_secs[0][2] = <<1, 1>>

ReportLines(w) == SelectSeq(output[w], LAMBDA l : l.fmt = "Img/sec per %s: %.1f +-%.1f")

TotalLines(w) ==
    SelectSeq(output[w], LAMBDA l : l.fmt = "Total img/sec on %d %s(s): %.1f +-%.1f")

HeaderLines(w) == SelectSeq(output[w], LAMBDA l : l.fmt = "Number of %ss: %d")

(* C6: in the final report the group throughput is the worker count times  *)
(* the per-worker mean and its confidence half-width the worker count      *)
(* times the per-worker half-width, with the worker count of the header.   *)
C6_GroupAggregate ==
    pc[0] = "done" =>
        /\ Len(ReportLines(0)) = 1 /\ Len(TotalLines(0)) = 1 /\ Len(HeaderLines(0)) = 1
        /\ LET per == ReportLines(0)[1].args
               tot == TotalLines(0)[1].args
               n == HeaderLines(0)[1].args[2]
           IN  /\ n = size
               /\ tot[1] = n
               /\ IsNaN(tot[3]) <=> IsNaN(per[2])
               /\ tot[3][1] * per[2][2] = n * per[2][1] * tot[3][2]
               /\ tot[4].rad = per[3].rad
               /\ IsNaN(tot[4].c) <=> IsNaN(per[3].c)
               /\ tot[4].c[1] * per[3].c[2] = n * per[3].c[1] * tot[4].c[2]

C6_Witness ==
    /\ size = MaxSize
    /\ pc[0] = "done"
    /\ Len(img_secs[0]) = 2
    /\ img_secs[0][1] # img_secs[0][2]
    /\ TotalLines(0)[1].args[3] = <<MaxSize * 3, 4>>

(* C7: the reported per-worker mean is the arithmetic mean of all the      *)
(* num_iters samples, and the half-width 1.96 times their population       *)
(* standard deviation (divisor n); both are computed once, after the last  *)
(* iteration.                                                              *)
C7_Summary ==
    \A w \in Workers :
        LET s == img_secs[w]
            n == Len(s)
            m == img_sec_mean[w]
            c == img_sec_conf[w]
        IN  /\ pc[w] # "done" => (IsNaN(m) /\ c = NoConf)
            /\ pc[w] = "done" =>
                  /\ n = args.num_iters
                  /\ n = 0 => (IsNaN(m) /\ IsNaN(c.rad))
                  /\ n > 0 =>
                        /\ RMul(<<n, 1>>, m) = RSum(s)
                        /\ c.c[1] * 100 = 196 * c.c[2]
                        /\ RMul(<<n, 1>>, c.rad) =
                              RSum([i \in 1..n |-> RMul(RSub(s[i], m), RSub(s[i], m))])
                  /\ w = 0 => ReportLines(0)[1].args = <<device[0], m, c>>

C7_Witness ==
    /\ pc[0] = "done"
    /\ args.num_warmup_batches >= 1
    /\ img_secs[0] = <<<<2, 1>>, <<1, 1>>>>
    /\ img_sec_mean[0] = <<3, 2>>
    /\ img_sec_conf[0] = [c |-> <<49, 25>>, rad |-> <<1, 4>>]

PastPin(w) == pc[w] # "pin" /\ err[w] # "IndexError"

PastModel(w) == PastPin(w) /\ pc[w] # "model" /\ err[w] # "AttributeError"

(* C8: in accelerator mode a local rank not below the number of discovered *)
(* devices, zero devices included, fails the initialization before any     *)
(* model is built or any step runs, and never goes on without restricting  *)
(* the visible devices; a local rank in range restricts the process to     *)
(* exactly the device of that index.                                       *)
C8_DeviceAssignment ==
    \A w \in Workers :
        (cuda[w] /\ pc[w] # "pin") =>
            IF local_rank(w) >= ngpus
            THEN /\ pc[w] = "failed" /\ err[w] = "IndexError"
                 /\ model[w] = NoModel /\ calls[w] = <<>> /\ visible[w] = -1
            ELSE visible[w] = local_rank(w)

(* the part of C8 the script keeps: with at least one device discovered    *)
C8_DevicesFound ==
    \A w \in Workers :
        (cuda[w] /\ pc[w] # "pin" /\ ngpus > 0) =>
            IF local_rank(w) >= ngpus
            THEN /\ pc[w] = "failed" /\ err[w] = "IndexError"
                 /\ model[w] = NoModel /\ calls[w] = <<>> /\ visible[w] = -1
            ELSE visible[w] = local_rank(w)

DeviceLines(w) ==
    SelectSeq(output[w], LAMBDA l : l.fmt \in
        { "Number of %ss: %d", "Iter #%d: %.1f img/sec per %s",
          "Img/sec per %s: %.1f +-%.1f", "Total img/sec on %d %s(s): %.1f +-%.1f" })

DeviceArg(l) ==
    IF l.fmt = "Iter #%d: %.1f img/sec per %s" THEN l.args[3]
    ELSE IF l.fmt = "Total img/sec on %d %s(s): %.1f +-%.1f" THEN l.args[2]
         ELSE l.args[1]

Prefix(s, n) == IF Len(s) >= n THEN SubSeq(s, 1, n) ELSE <<>>

(* what C10 says of a name, given the two prefix tests *)
Resolved(w, is_vgg19, is_resnet50) ==
    PastPin(w) /\ pc[w] # "model" =>
        IF is_vgg19
        THEN model[w] = [via |-> "import", ctor |-> VGG19] /\ err[w] = "none"
        ELSE IF is_resnet50
             THEN model[w] = [via |-> "import", ctor |-> ResNet50] /\ err[w] = "none"
             ELSE IF args.model \in Applications
                  THEN model[w] = [via |-> "getattr", ctor |-> args.model]
                       /\ err[w] = "none"
                  ELSE /\ pc[w] = "failed" /\ err[w] = "AttributeError"
                       /\ model[w] = NoModel /\ calls[w] = <<>> /\ steps[w] = 0

(* C10, as the spec states it: a name that starts with "vgg19" or          *)
(* "resnet50", letter case disregarded, is built by the explicit           *)
(* constructor and never looked up; any other name is looked up and fails, *)
(* before any training step, if it is absent.                              *)
C10_PrefixAnyCase ==
    \A w \in Workers :
        Resolved(w, Prefix(Lower(args.model), 5) = vgg19,
                    Prefix(Lower(args.model), 8) = resnet50)

(* C10, amended: the prefix is compared with the letter case: only a name  *)
(* that starts with lower-case "vgg19" or "resnet50" is built by the       *)
(* explicit constructor; every other name, the default "ResNet50"          *)
(* included, is looked up and fails, before any training step, if absent.  *)
C10_PrefixExact ==
    \A w \in Workers :
        Resolved(w, Prefix(args.model, 5) = vgg19, Prefix(args.model, 8) = resnet50)

C10_Witness ==
    /\ args.model = ResNet50
    /\ pc[0] = "done"
    /\ model[0] = [via |-> "getattr", ctor |-> ResNet50]

====
